---- MODULE Spec2Model ----
(***************************************************************************)
(* jpl2mpc (src/jpl2mpc.cpp): conversion of a JPL Horizons text ephemeris  *)
(* into the fixed-width format of MPC's DASO service and of eph2tle.       *)
(*                                                                         *)
(* Text is modelled character by character: a line is a sequence of        *)
(* one-character strings, the 200-byte buffer 'buff' is a sequence of 200  *)
(* cells, and the output file is the sequence of characters written.       *)
(* Numbers are decimal fixed-point values with FracDigits fractional       *)
(* digits (sign, integer part, fraction), so atof, atoi and printf are     *)
(* computed digit by digit; the rounding of binary doubles is not          *)
(* modelled, and the input values carry at most FracDigits significant     *)
(* fractional digits.                                                      *)
(*                                                                         *)
(* A "line" is what one fgets call delivers.  Every line of the inputs     *)
(* considered is shorter than the buffer, so fgets delivers whole lines.   *)
(***************************************************************************)
EXTENDS Integers, Sequences, FiniteSets, TLC

(***************************************************************************)
(* Characters and C strings                                                *)
(***************************************************************************)

\* The characters of a string literal, as a sequence of 1-character strings.
Chars(s) == <<>> \o [i \in 1..Len(s) |-> SubSeq(s, i, i)]

\* The terminating zero byte of a C string.
NUL == "NUL"

\* char buff[200]
BuffSize == 200

\* b[i] of C (0-based); a read past the array is taken as a zero byte.
At(b, i) == IF i >= 0 /\ i < Len(b) THEN b[i + 1] ELSE NUL

IsSpace(c) == c \in {" ", "\t", "\n", "\r", "\f"}

Digits == <<"0", "1", "2", "3", "4", "5", "6", "7", "8", "9">>

IsDigit(c) == \E d \in 1..10 : Digits[d] = c

DigitVal(c) == (CHOOSE d \in 1..10 : Digits[d] = c) - 1

\* strlen( b): the index of the first zero byte.
StrLen(b) == CHOOSE i \in 0..Len(b) :
                (i = Len(b) \/ b[i + 1] = NUL) /\ \A j \in 1..i : b[j] # NUL

\* !memcmp( b + off, s, strlen( s))
MemEq(b, off, s) == \A k \in 1..Len(s) : At(b, off + k - 1) = s[k]

\* strstr( b, s): the offset of the first occurrence of s in the string b, or -1.
StrStr(b, s) ==
   IF \E p \in 0..(StrLen(b) - Len(s)) : MemEq(b, p, s)
   THEN CHOOSE p \in 0..(StrLen(b) - Len(s)) :
           MemEq(b, p, s) /\ \A q \in 0..(p - 1) : ~MemEq(b, q, s)
   ELSE -1

\* strstr( b, s) != NULL
Contains(b, s) == \E p \in 0..(StrLen(b) - Len(s)) : b[p + 1] = s[1] /\ MemEq(b, p, s)

\* The C string held in b: its characters before the first zero byte.
CStr(b) == SubSeq(b, 1, StrLen(b))

(***************************************************************************)
(* Numbers: sign, integer part, and fraction in units of 10^-FracDigits    *)
(***************************************************************************)

FracDigits == 5

Pow10(n) == IF n <= 0 THEN 1 ELSE
            IF n = 1 THEN 10 ELSE
            IF n = 2 THEN 100 ELSE
            IF n = 3 THEN 1000 ELSE
            IF n = 4 THEN 10000 ELSE
            IF n = 5 THEN 100000 ELSE
            IF n = 6 THEN 1000000 ELSE
            IF n = 7 THEN 10000000 ELSE
            IF n = 8 THEN 100000000 ELSE 1000000000

Scale == Pow10(FracDigits)

Num(neg, ip, fp) == [neg |-> neg, ip |-> ip, fp |-> fp]

Zero == Num(FALSE, 0, 0)

\* The value i + f / Scale, for any integers i and f, in sign-magnitude form.
Norm(i, f) ==
   LET c  == f \div Scale
       f1 == f % Scale
       i1 == i + c
   IN  IF i1 >= 0 THEN Num(FALSE, i1, f1)
       ELSE IF f1 = 0 THEN Num(TRUE, -i1, 0)
       ELSE Num(TRUE, -i1 - 1, Scale - f1)

\* The signed integer and fraction parts of a number: x = IPart(x) + FPart(x)/Scale.
IPart(x) == IF x.neg THEN -x.ip ELSE x.ip
FPart(x) == IF x.neg THEN -x.fp ELSE x.fp

NumOfInt(i) == Norm(i, 0)

AddNum(x, y) == Norm(IPart(x) + IPart(y), FPart(x) + FPart(y))
SubNum(x, y) == Norm(IPart(x) - IPart(y), FPart(x) - FPart(y))

\* x > i and x < i for an integer i.
GtInt(x, i) == IPart(x) > i \/ (IPart(x) = i /\ FPart(x) > 0)
LtInt(x, i) == IPart(x) < i \/ (IPart(x) = i /\ FPart(x) < 0)

(***************************************************************************)
(* atoi and atof                                                           *)
(***************************************************************************)

\* The first index >= p whose character is not white space / not a digit.
SkipSpace(b, p) == CHOOSE q \in p..(Len(b) + p) :
                      ~IsSpace(At(b, q)) /\ \A r \in p..(q - 1) : IsSpace(At(b, r))

DigitsEnd(b, p) == CHOOSE q \in p..(Len(b) + p) :
                      ~IsDigit(At(b, q)) /\ \A r \in p..(q - 1) : IsDigit(At(b, r))

\* The value of the digits b[p..q-1] appended to the value acc.
RECURSIVE DigitsValue(_, _, _, _)
DigitsValue(b, p, q, acc) ==
   IF p >= q THEN acc ELSE DigitsValue(b, p + 1, q, acc * 10 + DigitVal(At(b, p)))

\* atoi( b + off): white space, an optional sign, digits; 0 when there is no digit.
AtoI(b, off) ==
   LET Unsigned(p2) == DigitsValue(b, p2, DigitsEnd(b, p2), 0)
       Signed(p1) == IF At(b, p1) = "-" THEN -Unsigned(p1 + 1)
                     ELSE IF At(b, p1) = "+" THEN Unsigned(p1 + 1)
                     ELSE Unsigned(p1)
   IN  Signed(SkipSpace(b, off))

\* The exponent of a mantissa that ends before b[mend]: "e" or "E", an
\* optional sign, digits; 0 without them.
Exponent(b, mend) ==
   LET Value(sign, es) ==
          LET Upto(ee) == IF ee > es THEN sign * DigitsValue(b, es, ee, 0) ELSE 0
          IN  Upto(DigitsEnd(b, es))
   IN  IF At(b, mend) \notin {"e", "E"} THEN 0
       ELSE IF At(b, mend + 1) = "-" THEN Value(-1, mend + 2)
       ELSE IF At(b, mend + 1) = "+" THEN Value(1, mend + 2)
       ELSE Value(1, mend + 1)

\* The k-th digit of the mantissa with nInt digits from b[p2] on and nFrac
\* digits from b[fs] on; 0 outside it.
MantissaDigit(b, p2, nInt, fs, nFrac, k) ==
   IF k < 1 \/ k > nInt + nFrac THEN 0
   ELSE IF k <= nInt THEN DigitVal(At(b, p2 + k - 1))
   ELSE DigitVal(At(b, fs + k - nInt - 1))

\* The value of the digits k..last of that mantissa, appended to the value acc.
RECURSIVE MantissaValue(_, _, _, _, _, _, _, _)
MantissaValue(b, p2, nInt, fs, nFrac, k, last, acc) ==
   IF k > last THEN acc
   ELSE MantissaValue(b, p2, nInt, fs, nFrac, k + 1, last,
                      acc * 10 + MantissaDigit(b, p2, nInt, fs, nFrac, k))

\* atof( b + off): white space, an optional sign, digits with an optional
\* decimal point, an optional exponent; 0 when there is no digit.  Digits
\* beyond FracDigits places after the decimal point of the value are dropped.
AtoF(b, off) ==
   LET Valued(neg, p2, nInt, fs, nFrac, point) ==
          IF nInt + nFrac = 0 THEN Zero
          ELSE Num(neg,
                   MantissaValue(b, p2, nInt, fs, nFrac, 1, point, 0),
                   MantissaValue(b, p2, nInt, fs, nFrac, point + 1, point + FracDigits, 0))
       Unsigned(neg, p2) ==
          LET WithInt(ie) ==
                 LET WithFrac(fs, fe) ==
                        Valued(neg, p2, ie - p2, fs, fe - fs, (ie - p2) + Exponent(b, fe))
                 IN  IF At(b, ie) = "." THEN WithFrac(ie + 1, DigitsEnd(b, ie + 1))
                     ELSE WithFrac(ie, ie)
          IN  WithInt(DigitsEnd(b, p2))
       Signed(p1) == IF At(b, p1) \in {"+", "-"} THEN Unsigned(At(b, p1) = "-", p1 + 1)
                     ELSE Unsigned(FALSE, p1)
   IN  Signed(SkipSpace(b, off))

(***************************************************************************)
(* printf conversions                                                      *)
(***************************************************************************)

\* The decimal digits of n >= 0.
RECURSIVE DecDigits(_)
DecDigits(n) == IF n < 10 THEN <<Digits[n + 1]>>
                ELSE Append(DecDigits(n \div 10), Digits[(n % 10) + 1])

\* k times the character c.
Rep(c, k) == <<>> \o [i \in 1..k |-> c]

\* Right-justified in a field of at least w characters: a longer text is
\* written in full.
PadLeft(t, w) == Rep(" ", w - Len(t)) \o t

\* The last k decimal digits of n, with leading zeros.
FixDigits(n, k) == <<>> \o [i \in 1..k |-> Digits[((n \div Pow10(k - i)) % 10) + 1]]

\* %w.pf: x rounded to p decimal places, right-justified in w characters.
FmtNum(x, w, p) ==
   LET drop == IF p < FracDigits THEN FracDigits - p ELSE 0
       kept == FracDigits - drop
       q0   == x.fp \div Pow10(drop)
       up   == drop > 0 /\ 2 * (x.fp % Pow10(drop)) >= Pow10(drop)
       q1   == IF up THEN q0 + 1 ELSE q0
       ipv  == IF q1 = Pow10(kept) THEN x.ip + 1 ELSE x.ip
       q    == IF q1 = Pow10(kept) THEN 0 ELSE q1
       frac == FixDigits(q, kept) \o Rep("0", p - kept)
       body == (IF x.neg THEN <<"-">> ELSE <<>>) \o DecDigits(ipv)
                  \o (IF p > 0 THEN <<".">> \o frac ELSE <<>>)
   IN  PadLeft(body, w)

\* The same, with the number computed once.
FmtF(x, w, p) == CHOOSE t \in {FmtNum(v, w, p) : v \in {x}} : TRUE

\* %wu
FmtU(n, w) == PadLeft(DecDigits(n), w)

(***************************************************************************)
(* Arithmetic of the coordinate normalizer                                 *)
(***************************************************************************)

\* sin and cos of the J2000 obliquity, in units of 10^-5.
sin_obliq_2000 == 39778
cos_obliq_2000 == 91748

\* const double AU_IN_KM = 1.495978707e+8, to the nearest km.
AU_IN_KM == 149597871

\* AU_IN_KM / seconds_per_day = 1731.4568368 km/s per AU/day, times 10^4.
AU_DAY_IN_KM_S == 17314568

\* x * c / 10^5 for a constant 0 <= c < 10^5, truncated to FracDigits places.
MulNum(x, c) ==
   LET ih == x.ip \div 10000
       il == x.ip % 10000
       fh == x.fp \div 1000
       fl == x.fp % 1000
       a  == ih * c
       b  == il * c
   IN  Norm((a \div 10) + (b \div 100000),
            (a % 10) * (Scale \div 10) + (b % 100000) * (Scale \div 100000)
               + ((fh * c) \div 100) + ((fl * c) \div 100000))

\* The same with the sign of x, each number computed once.
MulC(x, c) == CHOOSE r \in {Num(v.neg, m.ip, m.fp) : <<v, m>> \in {<<x, MulNum(x, c)>>}} : TRUE

\* The integer digits x is written with for the division.
DivIntDigits == 10

\* The k-th digit of x written with DivIntDigits integer digits.
DivDigit(x, k) ==
   IF k <= DivIntDigits THEN (x.ip \div Pow10(DivIntDigits - k)) % 10
   ELSE IF k <= DivIntDigits + FracDigits
        THEN (x.fp \div Pow10(DivIntDigits + FracDigits - k)) % 10
   ELSE 0

\* The long division of x * 10^shift by d from the k-th digit on: qi and qf
\* are the integer and the fraction digits of the quotient so far, r the
\* remainder; the quotient is rounded to FracDigits places.
RECURSIVE DivDigits(_, _, _, _, _, _, _)
DivDigits(x, d, shift, k, qi, qf, r) ==
   IF k > DivIntDigits + shift + FracDigits + 1
   THEN CHOOSE q \in {Num(x.neg, m.ip, m.fp) : m \in {Norm(qi, (qf + 5) \div 10)}} : TRUE
   ELSE CHOOSE q \in
           {IF k <= DivIntDigits + shift
            THEN DivDigits(x, d, shift, k + 1, qi * 10 + (t \div d), 0, t % d)
            ELSE DivDigits(x, d, shift, k + 1, qi, qf * 10 + (t \div d), t % d) :
               t \in {r * 10 + DivDigit(x, k)}} : TRUE

\* x * 10^shift / d for an integer 0 < d < 2*10^8, by long division over the
\* decimal digits of x, rounded to FracDigits places.
DivLong(x, d, shift) == CHOOSE q \in {DivDigits(v, d, shift, 1, 0, 0, 0) : v \in {x}} : TRUE

(***************************************************************************)
(* The program's pure functions                                            *)
(***************************************************************************)

\* The identifiers of the table.
KnownIds == {-21, -48, -82, -234, -235, -144, -95, -79, -96, -98, -151, -163, -139479,
             -9901491, -37}

\* The table of JPL identifiers; "" for an identifier it does not hold.
look_up_name(idx) ==
   CASE idx = -21      -> Chars("SOHO")
     [] idx = -48      -> Chars("Hubble Space Telescope")
     [] idx = -82      -> Chars("Cassini")
     [] idx = -234     -> Chars("STEREO-A")
     [] idx = -235     -> Chars("STEREO-B")
     [] idx = -144     -> Chars("Solar Orbiter")
     [] idx = -95      -> Chars("TESS = 2018-038A = NORAD 43435")
     [] idx = -79      -> Chars("Spitzer Space Telescope")
     [] idx = -96      -> Chars("Parker Space Probe")
     [] idx = -98      -> Chars("New Horizons")
     [] idx = -151     -> Chars("Chandra = 1999-040B = NORAD 25867")
     [] idx = -163     -> Chars("WISE")
     [] idx = -139479  -> Chars("Gaia = 2013-074A = NORAD 39479")
     [] idx = -9901491 -> Chars("Tianwen-1 = 2020-049A = NORAD 45935")
     [] idx = -37      -> Chars("Hayabusa 2 = 2014-076A = NORAD 40319")
     [] OTHER          -> <<>>

\* The offsets of x, y and z in a coordinate line held in b.
UnlabelledLocs == <<1, 24, 47>>
LabelledLocs == <<4, 30, 56>>

IsLabelled(b) == At(b, 1) = "X" \/ At(b, 2) = "X"

CoordLocs_Fixed(b) == UnlabelledLocs
CoordLocs(b) == IF IsLabelled(b) THEN LabelledLocs ELSE UnlabelledLocs

\* The rotation from the ecliptic to the equator, about the x axis.
Rotate_Inverse(c) ==
   CHOOSE r \in {<<c[1], AddNum(yc, zs), SubNum(zc, ys)>> :
                    <<yc, ys, zc, zs>> \in {<<MulC(c[2], cos_obliq_2000),
                                              MulC(c[2], sin_obliq_2000),
                                              MulC(c[3], cos_obliq_2000),
                                              MulC(c[3], sin_obliq_2000)>>}} : TRUE
Rotate(c) ==
   CHOOSE r \in {<<c[1], SubNum(yc, zs), AddNum(zc, ys)>> :
                    <<yc, ys, zc, zs>> \in {<<MulC(c[2], cos_obliq_2000),
                                              MulC(c[2], sin_obliq_2000),
                                              MulC(c[3], cos_obliq_2000),
                                              MulC(c[3], sin_obliq_2000)>>}} : TRUE

\* get_coords_from_buff: the three numbers of the line held in b.
get_coords_from_buff(b, ecl) ==
   CHOOSE c \in {IF ecl THEN Rotate(raw) ELSE raw :
                    raw \in {<<AtoF(b, loc[1]), AtoF(b, loc[2]), AtoF(b, loc[3])>> :
                                loc \in {CoordLocs(b)}}} : TRUE

\* for( i = 0; i < 3; i++) coords[i] /= AU_IN_KM;
PosToAU(c) == <<DivLong(c[1], AU_IN_KM, 0), DivLong(c[2], AU_IN_KM, 0),
                DivLong(c[3], AU_IN_KM, 0)>>

\* for( i = 0; i < 3; i++) coords[i] *= seconds_per_day / AU_IN_KM;
VelToAUDay(c) == <<DivLong(c[1], AU_DAY_IN_KM_S, 4), DivLong(c[2], AU_DAY_IN_KM_S, 4),
                  DivLong(c[3], AU_DAY_IN_KM_S, 4)>>

\* fgets( buff, sizeof( buff), ifile) for a line shorter than the buffer: the
\* line and a zero byte, the rest of the buffer keeping what it held.
Fgets(b, line) == line \o <<NUL>> \o SubSeq(b, Len(line) + 2, BuffSize)

CalendarMark == Chars(" = A.D.")
TimeScaleMark == Chars(" TDB")

\* jd > 2000000. && jd < 3000000.
IsJulianDate(t) == GtInt(t, 2000000) /\ LtInt(t, 3000000)

\* The test of a data line: a Julian Date between 2000000 and 3000000 and the
\* calendar date of Horizons at its columns.
IsTimestamp_AnyLength(b) ==
   /\ IsJulianDate(AtoF(b, 0))
   /\ MemEq(b, 17, CalendarMark)
   /\ At(b, 42) = ":"
   /\ At(b, 45) = "."
   /\ MemEq(b, 50, TimeScaleMark)
IsTimestamp(b) ==
   /\ IsJulianDate(AtoF(b, 0))
   /\ StrLen(b) > 54
   /\ MemEq(b, 17, CalendarMark)
   /\ At(b, 42) = ":"
   /\ At(b, 45) = "."
   /\ MemEq(b, 50, TimeScaleMark)

\* fprintf( ofile, header_fmt, jd0, step_size, n_written): "%13.5f %14.10f %4u"
header_fmt(j, st, n) == FmtF(j, 13, 5) \o <<" ">> \o FmtF(st, 14, 10) \o <<" ">> \o FmtU(n, 4)

\* " 0,1,1"
HeaderSuffix == Chars(" 0,1,1")

\* The text after the header: " (500) Geocentric: <name>\n", or "\n".
DescriptiveText_OwnLine(name) ==
   IF name # <<>> THEN Chars("\n (500) Geocentric: ") \o name \o <<"\n">>
   ELSE <<"\n", "\n">>
DescriptiveText(name) ==
   IF name # <<>> THEN Chars(" (500) Geocentric: ") \o name \o <<"\n">>
   ELSE <<"\n">>

\* "%13.5f%16.10f%16.10f%16.10f"
PositionText(j, c) == FmtF(j, 13, 5) \o FmtF(c[1], 16, 10) \o FmtF(c[2], 16, 10)
                         \o FmtF(c[3], 16, 10)

\* " %16.12f%16.12f%16.12f\n"
VelocityText_OwnLine(c) == <<"\n">> \o FmtF(c[1], 16, 12) \o FmtF(c[2], 16, 12)
                              \o FmtF(c[3], 16, 12) \o <<"\n">>
VelocityText(c) == <<" ">> \o FmtF(c[1], 16, 12) \o FmtF(c[2], 16, 12)
                      \o FmtF(c[3], 16, 12) \o <<"\n">>

\* __DATE__ of the build
BuildDate == Chars("Jan  1 2024")

\* "\n\nCreated from Horizons data by 'jpl2mpc', ver %s\n"
TrailerText == Chars("\n\nCreated from Horizons data by 'jpl2mpc', ver ") \o BuildDate
                  \o <<"\n">>

\* fseek( ofile, 0L, SEEK_SET); fprintf( ofile, ...): t written over the
\* beginning of the file f.
Overwrite(f, t) == t \o SubSeq(f, Len(t) + 1, Len(f))

(***************************************************************************)
(* The state of a run                                                      *)
(***************************************************************************)

VARIABLES
   argc,            \* the number of command-line arguments, program name included
   can_open_in,     \* whether fopen( argv[1], "rb") succeeds
   can_open_out,    \* whether fopen( argv[2], "wb") succeeds
   ifile,           \* the input file: the names of its lines, see LineText
   ipos,            \* the number of lines of ifile read so far
   ofile,           \* the characters of the output file
   console,         \* the messages printed with printf
   pc,              \* "start", "scan" (the while loop), "exit"
   ret,             \* the status given to exit() or returned by main
   buff,
   n_written,
   jd0, step_size, jd, frac_jd0, int_jd0,
   state_vectors, is_equatorial, is_ecliptical, in_km_s,
   object_name

vars == <<argc, can_open_in, can_open_out, ifile, ipos, ofile, console, pc, ret,
          buff, n_written, jd0, step_size, jd, frac_jd0, int_jd0,
          state_vectors, is_equatorial, is_ecliptical, in_km_s, object_name>>

flags == <<state_vectors, is_equatorial, is_ecliptical, in_km_s>>
epoch == <<jd0, step_size, frac_jd0, int_jd0>>
args  == <<argc, can_open_in, can_open_out, ifile>>

\* The messages of the program.
MsgNoInput  == "Couldn't open the Horizons file"
MsgNoOutput == "Couldn't open the output file"
MsgUsage    == "JPL2MPC takes input ephemeri(de)s generated by HORIZONS"
MsgFrame    == "Input coordinates must be in the Earth mean equator and equinox"
MsgNoData   == "Failed to get data from input file"

\* exit( -1) of error_exit, return( -1) of the frame test, return( -2) of a
\* failed fgets inside a sample.
ExitUsage  == -1
ExitNoData_AsUsage == ExitUsage
ExitNoData == -2
ExitFrame_AsNoData == ExitNoData
ExitFrame  == -1

(***************************************************************************)
(* The input files considered                                              *)
(***************************************************************************)

\* A data line of Horizons: the Julian Date in 17 columns, then the calendar date.
TsLine(jdfield) == Chars(jdfield) \o Chars(" = A.D. 2019-Oct-09 00:00:00.0000 TDB \n")

\* The lines an input file is made of, by name.
LineText ==
   [ eq   |-> Chars("Reference frame : ICRF\n"),
     eq2  |-> Chars("  Earth Mean Equator and Equinox of Reference Epoch\n"),
     ecl  |-> Chars("Reference frame : Ecliptic of J2000\n"),
     ecl2 |-> Chars("  Ecliptic and Mean Equinox of Reference Epoch\n"),
     vx   |-> Chars("   VX    VY    VZ\n"),
     km   |-> Chars("Output units    : KM-S\n"),
     \* the identifier at column 71
     rev  |-> Chars(" Revised: Sep 12, 2013") \o Rep(" ", 49) \o Chars("-139479\n"),
     \* a " Revised:" line that ends before column 71
     revs |-> Chars(" Revised: none\n"),
     tgt  |-> Chars("Target body name: TESS (spacecraft) (-95)\n"),
     tgtu |-> Chars("Target body name: Unknown (-12345)\n"),
     tgtn |-> Chars("Target body name: Ceres (1)\n"),
     soe  |-> Chars("$$SOE\n"),
     eoe  |-> Chars("$$EOE\n"),
     txt  |-> Chars("*******\n"),
     \* free text that reaches beyond column 71
     txtl |-> Chars("Center body name: Earth (399)") \o Rep(" ", 42) \o Chars("-48 \n"),
     t1   |-> TsLine("2458765.500000000"),
     t2   |-> TsLine("2458766.500000000"),
     \* the Julian Date right-justified in its columns
     t3   |-> TsLine(" 2458767.25000000"),
     t4   |-> TsLine("2459766.500000000"),
     cu   |-> Chars("  1.000000000000000E+00  2.000000000000000E+00 -3.500000000000000E+00\n"),
     cl   |-> Chars(" X = 1.000000000000000E+00 Y = 2.000000000000000E+00 Z =-3.500000000000000E+00\n"),
     ck   |-> Chars("  1.495978707000000E+08  0.000000000000000E+00 -7.479893535000000E+07\n"),
     cs   |-> Chars("\n"),
     vu   |-> Chars("  1.000000000000000E-02 -2.000000000000000E-02  3.000000000000000E-02\n"),
     vl   |-> Chars(" VX= 1.000000000000000E-02 VY=-2.000000000000000E-02 VZ= 3.000000000000000E-02\n"),
     \* velocities in km/s: 1, -2 and 0.5 AU/day
     vk   |-> Chars("  1.731456800000000E+03 -3.462913600000000E+03  8.657284000000000E+02\n"),
     \* lines that carry the marker of more than one rule
     vxq  |-> Chars("   VX    VY    VZ Reference frame : ICRF\n"),
     qe   |-> Chars("Earth Mean Equator and Equinox, not Ecliptic and Mean Equinox of Reference Epoch\n"),
     rvq  |-> Chars(" Revised: Earth Mean Equator and Equinox") \o Rep(" ", 31) \o Chars("-95\n"),
     tge  |-> Chars("Target body name: Reference frame : Ecliptic of J2000 (-48)\n"),
     kme  |-> Chars("Output units    : KM-S, Ecliptic and Mean Equinox of Reference Epoch\n"),
     \* a data line that carries a frame marker
     tq   |-> Chars("2458765.500000000 = A.D. 2019-Oct-09 00:00:00.0000 TDB Reference frame : ICRF\n"),
     \* the ends of the range of the Julian Date
     tlo  |-> TsLine("2000000.000000000"),
     tlo1 |-> TsLine("2000000.000010000"),
     thi  |-> TsLine("3000000.000000000"),
     thi1 |-> TsLine("2999999.999990000"),
     \* data lines with one column changed
     tad  |-> Chars("2458765.500000000 = B.C. 2019-Oct-09 00:00:00.0000 TDB \n"),
     tco  |-> Chars("2458765.500000000 = A.D. 2019-Oct-09 00:00.00.0000 TDB \n"),
     tdo  |-> Chars("2458765.500000000 = A.D. 2019-Oct-09 00:00:00:0000 TDB \n"),
     tut  |-> Chars("2458765.500000000 = A.D. 2019-Oct-09 00:00:00.0000 UTC \n"),
     \* a data line that ends with " TDB": with its newline, and as the last
     \* line of a file that does not end with a newline
     t55  |-> Chars("2458765.500000000 = A.D. 2019-Oct-09 00:00:00.0000 TDB\n"),
     t54  |-> Chars("2458765.500000000 = A.D. 2019-Oct-09 00:00:00.0000 TDB") ]

\* The sequences of at most n elements of S.
RECURSIVE SeqsUpTo(_, _)
SeqsUpTo(S, n) == IF n = 0 THEN {<<>>}
                  ELSE LET T == SeqsUpTo(S, n - 1)
                       IN  T \cup {Append(t, x) : t \in {u \in T : Len(u) = n - 1}, x \in S}

\* The concatenation of the sequences of a sequence.
RECURSIVE Flatten(_)
Flatten(ss) == IF ss = <<>> THEN <<>> ELSE Head(ss) \o Flatten(Tail(ss))

MaxHdr == 2
MaxSamples == 2
MaxMix == 4

HeaderLines == {"eq", "eq2", "ecl", "ecl2", "vx", "km", "rev", "revs", "tgt", "tgtu",
                "tgtn", "soe", "txt", "txtl"}
TimeLines   == {"t1", "t2", "t3", "t4"}
MixLines    == {"eq", "ecl", "soe", "t1", "cu"}

\* Any header lines, then no data or two samples with their velocity lines.
HeaderFiles ==
   {h \o b : h \in SeqsUpTo(HeaderLines, MaxHdr),
             b \in {<<>>, <<"t1", "cu", "vu", "t2", "cl", "vl", "eoe">>}}

\* An equatorial position-only ephemeris with any sequence of dates.
TimeFiles ==
   {<<"rev", "eq", "soe">> \o Flatten([i \in 1..Len(ts) |-> <<ts[i], "cu">>]) \o <<"eoe">> :
       ts \in SeqsUpTo(TimeLines, MaxSamples + 1)}

\* The line read for the position and the line after it.
CoordPairs == {<<"cu", "vu">>, <<"cl", "vl">>, <<"ck", "vu">>, <<"cu", "vl">>,
               <<"cl", "cs">>, <<"cs", "cs">>}

\* Ephemerides in each frame and unit, with any coordinate lines.
CoordFiles ==
   {h \o Flatten([i \in 1..Len(cs) |-> <<(IF i = 1 THEN "t1" ELSE "t2"), cs[i][1], cs[i][2]>>]) :
       h \in {<<"eq">>, <<"ecl", "vx">>, <<"eq", "km", "vx">>, <<"ecl", "km">>},
       cs \in SeqsUpTo(CoordPairs, MaxSamples)}

\* Any short sequence of markers, dates and coordinates.
MixFiles == SeqsUpTo(MixLines, MaxMix)

\* Ephemerides cut off after any of their lines.
CutFiles ==
   UNION {{SubSeq(f, 1, n) : n \in 0..Len(f)} :
             f \in {<<"eq", "vx", "t1", "cu", "vu", "t2", "cl", "vl">>,
                     <<"ecl", "t1", "cu", "t2", "cl">>,
                     <<"tgt", "eq", "soe", "t1", "cu">>}}

\* An identifying line before the first sample and one after it.
IdLines == {"rev", "revs", "tgt", "tgtu", "tgtn", "txt"}
NameFiles == {<<a, "eq", "t1", "cu", b, "t2", "cu">> : a \in IdLines, b \in IdLines}

\* A header line between the first sample and the second.
LateLines == {"eq", "eq2", "ecl", "ecl2", "vx", "km", "txt"}
LateFiles == {<<a, "t1", "cu", b, "t2", "cu", "vu">> : a \in {"eq", "ecl"}, b \in LateLines}

\* Header lines that carry more than one marker, and a data line with a marker.
OrderLines == {"vxq", "qe", "rvq", "tge", "kme", "eq", "ecl"}
OrderFiles == {<<a, b, "tq", "cu", "vu">> : a \in OrderLines, b \in OrderLines}

\* Lines close to a data line, before a sample or at the end of the file.
NearDataLines == {"tlo", "tlo1", "thi", "thi1", "tad", "tco", "tdo", "tut", "t55"}
NearDataFiles == {<<"eq", a, "cu", "t2", "cu">> : a \in NearDataLines}
                    \cup {<<"eq", "t1", "cu", "t54">>, <<"eq", "t54">>}

\* State vectors in each frame, in km and km/s or in AU and AU/day.
UnitFiles == {<<f, u, "vx", "t1", "ck", "vk", "t2", "cu", "vu">> :
                 f \in {"eq", "ecl"}, u \in {"km", "txt"}}

\* Markers and data lines where the position and the velocity are read.
ConsumedLines == {"ecl", "rev", "tgt", "km", "vx", "t1", "tq", "cu"}
ConsumedFiles == {<<"eq", "vx", "t1", a, b, "t2", "cu", "vu">> :
                     a \in ConsumedLines, b \in ConsumedLines}

InputFiles == HeaderFiles \cup TimeFiles \cup CoordFiles \cup MixFiles \cup CutFiles
                 \cup NameFiles \cup LateFiles \cup OrderFiles \cup NearDataFiles
                 \cup UnitFiles \cup ConsumedFiles

\* What buff may hold before the first fgets: it is not initialized.
ZeroBuff == Rep(NUL, BuffSize)
JunkBuff == <<>> \o [i \in 1..BuffSize |-> IF i = BuffSize THEN NUL
                                          ELSE Chars("-37 X ")[((i - 1) % 6) + 1]]

(***************************************************************************)
(* The run                                                                 *)
(***************************************************************************)

\* The i-th line of the input file.
Line(i) == LineText[ifile[i]]

\* FILE *ifile = (argc > 1 ? fopen( argv[1], "rb") : NULL);
ifile_opened == argc > 1 /\ can_open_in
\* FILE *ofile = (argc > 2 ? fopen( argv[2], "wb") : stdout);
ofile_opened == argc > 2 => can_open_out

Init ==
   /\ \/ /\ argc \in {1, 2, 3}
         /\ can_open_in \in BOOLEAN
         /\ can_open_out \in BOOLEAN
         /\ ifile \in {<<>>, <<"tgt", "eq", "soe", "t1", "cu", "eoe">>}
         /\ buff = ZeroBuff
      \/ /\ argc = 3
         /\ can_open_in = TRUE
         /\ can_open_out = TRUE
         /\ ifile \in InputFiles
         /\ buff \in (IF ifile \in HeaderFiles THEN {ZeroBuff, JunkBuff} ELSE {ZeroBuff})
   /\ ipos = 0
   /\ ofile = <<>>
   /\ console = <<>>
   /\ pc = "start"
   /\ ret = 0
   /\ n_written = 0
   /\ jd0 = Zero /\ step_size = Zero /\ jd = Zero /\ frac_jd0 = Zero /\ int_jd0 = 0
   /\ state_vectors = FALSE /\ is_equatorial = FALSE
   /\ is_ecliptical = FALSE /\ in_km_s = FALSE
   /\ object_name = <<>>

\* The usage text and exit( -1): no input file named, or a file not opened.
StartFail ==
   /\ pc = "start"
   /\ argc < 2 \/ ~ifile_opened \/ ~ofile_opened
   /\ console' = console
                    \o (IF argc > 1 /\ ~ifile_opened THEN <<MsgNoInput>> ELSE <<>>)
                    \o (IF ~ofile_opened THEN <<MsgNoOutput>> ELSE <<>>)
                    \o <<MsgUsage>>
   /\ ret' = ExitUsage
   /\ pc' = "exit"
   /\ UNCHANGED <<args, ipos, ofile, buff, n_written, epoch, jd, flags, object_name>>

\* The provisional header and its suffix, before the scan.
StartOk ==
   /\ pc = "start"
   /\ ~(argc < 2 \/ ~ifile_opened \/ ~ofile_opened)
   /\ ofile' = ofile \o header_fmt(Zero, Zero, 0) \o HeaderSuffix
   /\ pc' = "scan"
   /\ UNCHANGED <<args, ipos, console, ret, buff, n_written, epoch, jd, flags, object_name>>

\* The buffer once the next line is read into it.
NextBuff == Fgets(buff, Line(ipos + 1))

\* step_size = (atof( buff + 7) - frac_jd0) + (double)( atoi( buff) - int_jd0);
StepSize(b) ==
   CHOOSE st \in {AddNum(fd, NumOfInt(i - int_jd0)) :
                     <<fd, i>> \in {<<SubNum(AtoF(b, 7), frac_jd0), AtoI(b, 0)>>}} : TRUE

\* What a data line held in b sets before its coordinates are read: the epoch
\* and the descriptive text at the first sample, the step size at the second.
BeginSample(b) ==
   /\ jd' = AtoF(b, 0)
   /\ jd0' = IF n_written = 0 THEN AtoF(b, 0) ELSE jd0
   /\ int_jd0' = IF n_written = 0 THEN AtoI(b, 0) ELSE int_jd0
   /\ frac_jd0' = IF n_written = 0 THEN AtoF(b, 7) ELSE frac_jd0
   /\ step_size' = IF n_written = 1 THEN StepSize(b) ELSE step_size

DescriptiveIfFirst_Always == DescriptiveText(object_name)
DescriptiveIfFirst == IF n_written = 0 THEN DescriptiveText(object_name) ELSE <<>>

\* The position and the velocity of a sample, from the lines held in b.
Position(b) == CHOOSE p \in {IF in_km_s THEN PosToAU(c) ELSE c :
                                 c \in {get_coords_from_buff(b, is_ecliptical)}} : TRUE
Velocity(b) == CHOOSE v \in {IF in_km_s THEN VelToAUDay(c) ELSE c :
                                 c \in {get_coords_from_buff(b, is_ecliptical)}} : TRUE

\* if( is_equatorial == is_ecliptical) fails: exactly one frame was announced.
FrameKnown_Either == is_equatorial \/ is_ecliptical
FrameKnown_FirstOnly == n_written > 0 \/ is_equatorial # is_ecliptical
FrameKnown == is_equatorial # is_ecliptical

\* A data line read while the frame is not known: the message and return( -1).
ScanFrameError_Trailer ==
   /\ pc = "scan" /\ ipos < Len(ifile)
   /\ ~FrameKnown
   /\ \E b1 \in {NextBuff} :
         /\ IsTimestamp(b1)
         /\ buff' = b1
         /\ jd' = AtoF(b1, 0)
   /\ ipos' = ipos + 1
   /\ console' = Append(console, MsgFrame)
   /\ ofile' = ofile \o TrailerText
   /\ ret' = ExitFrame
   /\ pc' = "exit"
   /\ UNCHANGED <<args, n_written, epoch, flags, object_name>>
ScanFrameError ==
   /\ pc = "scan" /\ ipos < Len(ifile)
   /\ ~FrameKnown
   /\ \E b1 \in {NextBuff} :
         /\ IsTimestamp(b1)
         /\ buff' = b1
         /\ jd' = AtoF(b1, 0)
   /\ ipos' = ipos + 1
   /\ console' = Append(console, MsgFrame)
   /\ ret' = ExitFrame
   /\ pc' = "exit"
   /\ UNCHANGED <<args, ofile, n_written, epoch, flags, object_name>>

\* The input ends before the position line, or before the velocity line.
EndsInSample == ipos + 1 = Len(ifile) \/ (state_vectors /\ ipos + 2 = Len(ifile))

\* A data line whose position line, or whose velocity line, is missing: the
\* message and return( -2).
ScanTruncated ==
   /\ pc = "scan" /\ ipos < Len(ifile)
   /\ FrameKnown
   /\ EndsInSample
   /\ \E b1 \in {NextBuff} :
         /\ IsTimestamp(b1)
         /\ BeginSample(b1)
         /\ IF ipos + 1 = Len(ifile)
            THEN /\ buff' = b1
                 /\ ofile' = ofile \o DescriptiveIfFirst
                 /\ ipos' = ipos + 1
            ELSE \E b2 \in {Fgets(b1, Line(ipos + 2))} :
                    /\ buff' = b2
                    /\ ofile' = ofile \o DescriptiveIfFirst
                                   \o PositionText(AtoF(b1, 0), Position(b2))
                    /\ ipos' = ipos + 2
   /\ console' = Append(console, MsgNoData)
   /\ ret' = ExitNoData
   /\ pc' = "exit"
   /\ UNCHANGED <<args, n_written, flags, object_name>>

\* A data line and its coordinate lines: one sample written.
ScanSample_PositionOnly ==
   /\ pc = "scan" /\ ipos < Len(ifile)
   /\ FrameKnown
   /\ ~EndsInSample
   /\ \E b1 \in {NextBuff} :
         /\ IsTimestamp(b1)
         /\ BeginSample(b1)
         /\ \E b2 \in {Fgets(b1, Line(ipos + 2))} :
               /\ buff' = b2
               /\ ofile' = ofile \o DescriptiveIfFirst
                              \o PositionText(AtoF(b1, 0), Position(b2)) \o <<"\n">>
               /\ ipos' = ipos + 2
   /\ n_written' = n_written + 1
   /\ UNCHANGED <<args, console, ret, pc, flags, object_name>>
ScanSample ==
   /\ pc = "scan" /\ ipos < Len(ifile)
   /\ FrameKnown
   /\ ~EndsInSample
   /\ \E b1 \in {NextBuff} :
         /\ IsTimestamp(b1)
         /\ BeginSample(b1)
         /\ \E b2 \in {Fgets(b1, Line(ipos + 2))} :
               \E text \in {DescriptiveIfFirst \o PositionText(AtoF(b1, 0), Position(b2))} :
                  IF ~state_vectors
                  THEN /\ buff' = b2
                       /\ ofile' = ofile \o text \o <<"\n">>
                       /\ ipos' = ipos + 2
                  ELSE \E b3 \in {Fgets(b2, Line(ipos + 3))} :
                          /\ buff' = b3
                          /\ ofile' = ofile \o text \o VelocityText(Velocity(b3))
                          /\ ipos' = ipos + 3
   /\ n_written' = n_written + 1
   /\ UNCHANGED <<args, console, ret, pc, flags, object_name>>

\* The markers of the header lines, in the order they are tried.
VelocityMark   == Chars("   VX    VY    VZ")
EquatorMark    == Chars("Earth Mean Equator and Equinox")
IcrfMark       == Chars("Reference frame : ICRF")
EclipticMark   == Chars("Ecliptic and Mean Equinox of Reference Epoch")
EclipticJ2000Mark == Chars("Reference frame : Ecliptic of J2000")
RevisedMark    == Chars(" Revised:")
TargetMark     == Chars("Target body name:")
KmUnitsMark    == Chars("Output units    : KM-S")
MinusIdMark    == Chars("(-")
StartOfEphemeris_End == Chars("$$EOE")
StartOfEphemeris == Chars("$$SOE")

IsVelocityHeader(b) == MemEq(b, 0, VelocityMark)
IsEquatorialMark(b) == Contains(b, EquatorMark) \/ Contains(b, IcrfMark)
IsEclipticMark(b)   == Contains(b, EclipticMark) \/ Contains(b, EclipticJ2000Mark)
IsRevised(b)        == MemEq(b, 0, RevisedMark)
IsTargetName(b)     == MemEq(b, 0, TargetMark)
IsKmUnits(b)        == MemEq(b, 0, KmUnitsMark)

\* The rule a line held in b fires, "none" when it fires none.
Detected_NameFirst(b) ==
   IF IsRevised(b) THEN "revised"
   ELSE IF IsTargetName(b) THEN "target"
   ELSE IF IsVelocityHeader(b) THEN "state_vectors"
   ELSE IF IsEquatorialMark(b) THEN "is_equatorial"
   ELSE IF IsEclipticMark(b) THEN "is_ecliptical"
   ELSE IF IsKmUnits(b) THEN "in_km_s"
   ELSE "none"
Detected(b) ==
   IF IsVelocityHeader(b) THEN "state_vectors"
   ELSE IF IsEquatorialMark(b) THEN "is_equatorial"
   ELSE IF IsEclipticMark(b) THEN "is_ecliptical"
   ELSE IF IsRevised(b) THEN "revised"
   ELSE IF IsTargetName(b) THEN "target"
   ELSE IF IsKmUnits(b) THEN "in_km_s"
   ELSE "none"

\* The identifier of a "Target body name:" line: the number after "(-", sign included.
TargetName_Unsigned(b) ==
   CHOOSE name \in {IF tptr >= 0 THEN look_up_name(AtoI(b, tptr + 2)) ELSE object_name :
                       tptr \in {StrStr(b, MinusIdMark)}} : TRUE
TargetName(b) ==
   CHOOSE name \in {IF tptr >= 0 THEN look_up_name(AtoI(b, tptr + 1)) ELSE object_name :
                       tptr \in {StrStr(b, MinusIdMark)}} : TRUE

\* state_vectors = true, is_equatorial = true, ...: the flag of the rule that
\* fired is set, the other flags keep their values.
SetFlag_Toggle(flag, fired) == IF fired THEN ~flag ELSE flag
SetFlag(flag, fired) == flag \/ fired

\* Any other line: at most one rule of the detector.
ScanDetect ==
   /\ pc = "scan" /\ ipos < Len(ifile)
   /\ \E b1 \in {NextBuff} :
         /\ ~IsTimestamp(b1)
         /\ buff' = b1
         /\ jd' = AtoF(b1, 0)
         /\ \E d \in {Detected(b1)} :
               /\ state_vectors' = SetFlag(state_vectors, d = "state_vectors")
               /\ is_equatorial' = SetFlag(is_equatorial, d = "is_equatorial")
               /\ is_ecliptical' = SetFlag(is_ecliptical, d = "is_ecliptical")
               /\ in_km_s' = SetFlag(in_km_s, d = "in_km_s")
               /\ object_name' = IF d = "revised" THEN look_up_name(AtoI(b1, 71))
                                 ELSE IF d = "target" THEN TargetName(b1)
                                 ELSE object_name
   /\ ipos' = ipos + 1
   /\ UNCHANGED <<args, ofile, console, ret, pc, n_written, epoch>>

\* while( fgets( buff, sizeof( buff), ifile) && memcmp( buff, "$$SOE", 5))
\*    fprintf( ofile, "%s", buff);
\* from line i on with b in the buffer and text written so far: the text
\* written, the buffer left, the lines read.
RECURSIVE CopyPreamble(_, _, _)
RECURSIVE CopyLine(_, _, _)
CopyPreamble(b, i, text) ==
   IF i > Len(ifile) THEN [text |-> text, buff |-> b, ipos |-> Len(ifile)]
   ELSE CHOOSE r \in {CopyLine(b1, i, text) : b1 \in {Fgets(b, Line(i))}} : TRUE
CopyLine(b1, i, text) ==
   IF MemEq(b1, 0, StartOfEphemeris) THEN [text |-> text, buff |-> b1, ipos |-> i]
   ELSE CHOOSE r \in {CopyPreamble(b1, i + 1, t) : t \in {text \o CStr(b1)}} : TRUE

\* The end of the input: the trailer, the lines before "$$SOE", then the
\* header written over the provisional one, and return( 0).
Finish ==
   /\ pc = "scan" /\ ipos = Len(ifile)
   /\ \E copy \in {CopyPreamble(buff, 1, <<>>)} :
         /\ ofile' = Overwrite(ofile \o TrailerText \o copy.text,
                               header_fmt(jd0, step_size, n_written))
         /\ buff' = copy.buff
         /\ ipos' = copy.ipos
   /\ ret' = 0
   /\ pc' = "exit"
   /\ UNCHANGED <<args, console, n_written, epoch, jd, flags, object_name>>

Next == StartFail \/ StartOk \/ ScanFrameError \/ ScanTruncated \/ ScanSample
           \/ ScanDetect \/ Finish

Spec == Init /\ [][Next]_vars

(***************************************************************************)
(* Reading the input file and the output file                              *)
(***************************************************************************)

\* The i-th line of the input alone in a cleared buffer, and the rule of the
\* detector it fires by itself.
LineBuff(i) == Fgets(ZeroBuff, Line(i))
Fires(i) == Detected(LineBuff(i))

\* A data line: more than 54 characters, " = A.D." at offset 17, ':' and '.'
\* at the offsets 42 and 45, " TDB" at offset 50, and a leading number
\* between 2000000 and 3000000.
IsDataLine(l) ==
   /\ Len(l) > 54
   /\ SubSeq(l, 18, 24) = Chars(" = A.D.")
   /\ l[43] = ":" /\ l[46] = "."
   /\ SubSeq(l, 51, 54) = Chars(" TDB")
   /\ GtInt(AtoF(l \o <<NUL>>, 0), 2000000)
   /\ LtInt(AtoF(l \o <<NUL>>, 0), 3000000)
Qualifies(i) == IsDataLine(Line(i))
QualifyingLines == {i \in 1..Len(ifile) : Qualifies(i)}

\* The run got past its arguments, and it ended with return( 0).
Opened == ifile_opened /\ ofile_opened
Succeeded == pc = "exit" /\ Opened /\ ret = 0

\* The index of the k-th newline of the text t: 0 for k = 0, Len(t) + 1 when
\* t has fewer than k newlines.
NewlineAt(t, k) ==
   LET nl == {i \in 1..Len(t) : t[i] = "\n"}
   IN  IF k = 0 THEN 0
       ELSE IF Cardinality(nl) < k THEN Len(t) + 1
       ELSE CHOOSE i \in nl : Cardinality({j \in nl : j < i}) = k - 1

\* The k-th line of the text t, without its newline.
OutLine(t, k) == SubSeq(t, NewlineAt(t, k - 1) + 1, NewlineAt(t, k) - 1)

\* A text as a C string, for atoi and atof.
AsBuff(l) == l \o <<NUL>>

\* The lines of t after line 1 and before its first empty line: the sample records.
RecordCount(t) ==
   LET n == Cardinality({i \in 1..Len(t) : t[i] = "\n"})
       e == CHOOSE k \in 2..(n + 2) :
               (k = n + 2 \/ OutLine(t, k) = <<>>)
                  /\ \A j \in 2..(k - 1) : OutLine(t, j) # <<>>
   IN  e - 2
Record(t, k) == OutLine(t, k + 1)

\* A sample record begins with its Julian Date.
IsRecord(l) ==
   /\ GtInt(AtoF(AsBuff(l), 0), 2000000)
   /\ LtInt(AtoF(AsBuff(l), 0), 3000000)

\* The end of the token of b that starts at p: the next white space or the end.
TokenEnd(b, p) == CHOOSE q \in p..(Len(b) + p) :
                     (IsSpace(At(b, q)) \/ At(b, q) = NUL)
                        /\ \A r \in p..(q - 1) : ~IsSpace(At(b, r)) /\ At(b, r) # NUL

\* Where the k-th white-space separated token of b starts.
RECURSIVE TokenStart(_, _)
TokenStart(b, k) == IF k = 1 THEN SkipSpace(b, 0)
                    ELSE SkipSpace(b, TokenEnd(b, TokenStart(b, k - 1)))

\* The step size and the sample count a reader finds in the header line of t:
\* its second and its third number.
StepField(t)  == LET b == AsBuff(OutLine(t, 1)) IN AtoF(b, TokenStart(b, 2))
CountField(t) == LET b == AsBuff(OutLine(t, 1)) IN AtoI(b, TokenStart(b, 3))

\* The length of the provisional header.
ProvisionalLen == Len(header_fmt(Zero, Zero, 0))

(***************************************************************************)
(* C1                                                                      *)
(***************************************************************************)

\* The input announces the equator before its first data line, announces no
\* ecliptic, no km and no velocities, and every data line is followed by a
\* line that is not a data line.
EquatorialAuPositions ==
   /\ \E m \in 1..Len(ifile) :
         Fires(m) = "is_equatorial" /\ \A i \in QualifyingLines : m < i
   /\ \A i \in 1..Len(ifile) : Fires(i) \notin {"is_ecliptical", "state_vectors", "in_km_s"}
   /\ \A i \in QualifyingLines : i < Len(ifile) /\ ~Qualifies(i + 1)

\* C1: a run on an equatorial, AU, position-only input whose N data lines are
\* each followed by a coordinate line ends with status 0, N sample records in
\* the output, and N in the count field of the header line.
C1_RecordsAndCountAreN ==
   (pc = "exit" /\ Opened /\ EquatorialAuPositions)
      => /\ ret = 0
         /\ RecordCount(ofile) = Cardinality(QualifyingLines)
         /\ \A k \in 1..RecordCount(ofile) : IsRecord(Record(ofile, k))
         /\ CountField(ofile) = Cardinality(QualifyingLines)

(***************************************************************************)
(* C2                                                                      *)
(***************************************************************************)

\* The Julian Date of the k-th sample record of the output.
RecordJd(t, k) == AtoF(AsBuff(Record(t, k)), 0)

\* C2: in a successful run with at least two samples the step size of the
\* header is the Julian Date of the second sample minus that of the first.
C2_StepIsSecondMinusFirst ==
   (Succeeded /\ n_written >= 2)
      => StepField(ofile) = SubNum(RecordJd(ofile, 2), RecordJd(ofile, 1))

(***************************************************************************)
(* C3                                                                      *)
(***************************************************************************)

\* A data line is the next line while the frame flags are equal.
FrameUnknownAtDataLine ==
   /\ pc = "scan" /\ ipos < Len(ifile)
   /\ Qualifies(ipos + 1)
   /\ is_equatorial = is_ecliptical

C3_AbortStep ==
   FrameUnknownAtDataLine
      => /\ pc' = "exit" /\ ret' = -1
         /\ console' = Append(console, MsgFrame)
         /\ ofile' = ofile /\ n_written' = n_written

C3_NoMarkerNoSample ==
   \/ n_written = 0 /\ RecordCount(ofile) = 0 /\ pc # "exit"
   \/ (Opened /\ \A i \in 1..Len(ifile) : Fires(i) \notin {"is_equatorial", "is_ecliptical"})
         => /\ n_written = 0
            /\ RecordCount(ofile) = 0
            /\ (pc = "exit" /\ QualifyingLines # {}
                   => ret = -1 /\ console = <<MsgFrame>>)

\* C3: a data line read while the equatorial and the ecliptic flag are equal
\* ends the run with the frame message and status -1, and no sample is
\* written for it; an input with neither marker never gets a sample written.
C3_FrameAbort == [][C3_AbortStep]_vars /\ []C3_NoMarkerNoSample

\* Reached: a run ended by the frame message with both frames announced.
C3_Witness ==
   /\ pc = "exit" /\ ret = -1
   /\ console = <<MsgFrame>>
   /\ is_equatorial /\ is_ecliptical
   /\ QualifyingLines # {}

(***************************************************************************)
(* C4                                                                      *)
(***************************************************************************)

\* The number of newlines of a text.
Newlines(t) == Cardinality({i \in 1..Len(t) : t[i] = "\n"})

\* A data line is the next line with the frame known, and the input ends with
\* it, or, with velocities expected, with the line after it.
InputEndsInSample ==
   /\ pc = "scan" /\ ipos < Len(ifile)
   /\ Qualifies(ipos + 1)
   /\ is_equatorial # is_ecliptical
   /\ \/ ipos + 1 = Len(ifile)
      \/ state_vectors /\ ipos + 2 = Len(ifile)

C4_AbortStep ==
   InputEndsInSample
      => /\ pc' = "exit" /\ ret' = -2
         /\ console' = Append(console, MsgNoData)
         /\ n_written' = n_written

\* After the message every counted sample is a finished line of the output,
\* and nothing else is: the descriptive text ends line 1.
C4_CountsFinished ==
   (pc = "exit" /\ console # <<>> /\ console[Len(console)] = MsgNoData)
      => ret = -2 /\ Newlines(ofile) = n_written + 1

C5_PatchKeepsSuffix ==
   Succeeded
      => /\ Len(header_fmt(jd0, step_size, n_written)) = ProvisionalLen
         /\ SubSeq(ofile, ProvisionalLen + 1, ProvisionalLen + Len(HeaderSuffix))
               = HeaderSuffix

(***************************************************************************)
(* C6                                                                      *)
(***************************************************************************)

\* " (500) Geocentric: <name>" for the names of the table.
Annotations == {Chars(" (500) Geocentric: ") \o look_up_name(i) : i \in KnownIds}

\* C6 as stated: line 1 is the header and " 0,1,1", line 2 is blank or the
\* annotation, the records follow from line 3.
C6_DescriptiveLineTwo ==
   Succeeded
      => /\ OutLine(ofile, 1) = header_fmt(jd0, step_size, n_written) \o HeaderSuffix
         /\ OutLine(ofile, 2) \in {<<>>} \cup Annotations
         /\ \A k \in 1..n_written : IsRecord(OutLine(ofile, k + 2))

\* C6: in the output of a successful run, line 1 is the header written over
\* the provisional header and " 0,1,1", and, when there is a sample, the
\* descriptive text on the same line: nothing or the annotation.  There is no
\* descriptive line 2: the records are the lines 2 to n_written + 1, a blank
\* line follows them.
C6_DescriptiveOnLineOne ==
   Succeeded
      => LET l1   == OutLine(ofile, 1)
             head == Overwrite(header_fmt(Zero, Zero, 0) \o HeaderSuffix,
                               header_fmt(jd0, step_size, n_written))
         IN  /\ SubSeq(l1, 1, Len(head)) = head
             /\ SubSeq(l1, Len(head) + 1, Len(l1)) \in {<<>>} \cup Annotations
             /\ n_written = 0 => l1 = head
             /\ RecordCount(ofile) = n_written
             /\ \A k \in 1..n_written : IsRecord(OutLine(ofile, k + 1))
             /\ OutLine(ofile, n_written + 2) = <<>>

\* Reached: a successful run with an annotation and two samples.
C6_Witness ==
   /\ Succeeded /\ n_written = 2
   /\ Len(OutLine(ofile, 1)) > ProvisionalLen + Len(HeaderSuffix)
   /\ IsRecord(OutLine(ofile, 2))

(***************************************************************************)
(* C7                                                                      *)
(***************************************************************************)

BeginsWith(l, s) == Len(l) >= Len(s) /\ SubSeq(l, 1, Len(s)) = s

\* The first line of the input that begins with "$$SOE", Len(ifile) + 1 without one.
SentinelIndex ==
   LET hits == {i \in 1..Len(ifile) : BeginsWith(Line(i), Chars("$$SOE"))}
   IN  IF hits = {} THEN Len(ifile) + 1 ELSE CHOOSE i \in hits : \A j \in hits : i <= j

\* The lines of the input before the sentinel.
Preamble == Flatten([i \in 1..(SentinelIndex - 1) |-> Line(i)])

\* C7: the output of a successful run ends with the trailer and then the
\* lines of the input before the first line beginning with "$$SOE", all lines
\* when there is none; before the trailer stand the header line and the records.
C7_PreambleCopied ==
   Succeeded
      => LET tail == TrailerText \o Preamble
             cut  == Len(ofile) - Len(tail)
         IN  /\ cut >= ProvisionalLen + Len(HeaderSuffix)
             /\ SubSeq(ofile, cut + 1, Len(ofile)) = tail
             /\ Newlines(SubSeq(ofile, 1, cut))
                   = IF n_written = 0 THEN 0 ELSE n_written + 1

\* Reached: a successful run with samples whose input has lines before and
\* after its "$$SOE" line.
C7_Witness ==
   /\ Succeeded /\ n_written >= 1
   /\ SentinelIndex > 1 /\ SentinelIndex < Len(ifile)

(***************************************************************************)
(* C8                                                                      *)
(***************************************************************************)

\* The kind of the error a run ended with, by its last message.
ErrorKind ==
   IF console = <<>> THEN "none"
   ELSE LET m == console[Len(console)]
        IN  IF m = MsgUsage THEN "usage"
            ELSE IF m = MsgFrame THEN "frame"
            ELSE IF m = MsgNoData THEN "nodata"
            ELSE "other"

\* The exit code the program gives to each kind of error.
ExitCodeOf == [usage |-> ExitUsage, frame |-> ExitFrame, nodata |-> ExitNoData]

\* C8 as stated: a run that ends with one of the three errors ends with a
\* nonzero exit code that is not the exit code of another kind.
C8_OwnExitCode ==
   (pc = "exit" /\ ErrorKind # "none")
      => /\ ret # 0
         /\ \A k \in DOMAIN ExitCodeOf : k # ErrorKind => ret # ExitCodeOf[k]

\* C8: each kind of error ends the run with its own message and a nonzero
\* exit code: -1 for an argument or open error and for a frame error alike,
\* -2 for a truncated input; without an error the run ends with 0.
C8_ExitCodes ==
   /\ MsgUsage # MsgFrame /\ MsgUsage # MsgNoData /\ MsgFrame # MsgNoData
   /\ pc = "exit"
         => /\ ErrorKind \in {"none", "usage", "frame", "nodata"}
            /\ ErrorKind = "none" <=> ret = 0
            /\ ErrorKind = "usage" => ret = -1 /\ ~Opened
            /\ ErrorKind = "frame" => ret = -1 /\ Opened
            /\ ErrorKind = "nodata" => ret = -2 /\ Opened

\* Reached: a run ended by the frame message with the exit code of an
\* argument error.
C8_Witness == pc = "exit" /\ ErrorKind = "frame" /\ ret = ExitUsage

(***************************************************************************)
(* C9                                                                      *)
(***************************************************************************)

\* The first data line of the input, Len(ifile) + 1 without one.
FirstData ==
   IF QualifyingLines = {} THEN Len(ifile) + 1
   ELSE CHOOSE i \in QualifyingLines : \A j \in QualifyingLines : i <= j

\* Whether l contains s.
Within(l, s) == \E p \in 0..(Len(l) - Len(s)) : SubSeq(l, p + 1, p + Len(s)) = s

\* The identifier lines: " Revised:" lines, "Target body name:" lines with "(-".
IsRevisedLine(l) == BeginsWith(l, Chars(" Revised:"))
IsTargetLine(l)  == BeginsWith(l, Chars("Target body name:")) /\ Within(l, Chars("(-"))

\* The last identifier line before the first data line, 0 without one.
LastIdLine ==
   LET ids == {i \in 1..(FirstData - 1) : IsRevisedLine(Line(i)) \/ IsTargetLine(Line(i))}
   IN  IF ids = {} THEN 0 ELSE CHOOSE i \in ids : \A j \in ids : j <= i

\* The identifier of an identifier line: the number at column 71, or the one
\* that starts with the "-" of "(-".
IdOfLine(l) ==
   IF IsRevisedLine(l) THEN AtoI(AsBuff(l), 71)
   ELSE LET p == CHOOSE q \in 0..Len(l) :
                    /\ SubSeq(l, q + 1, q + 2) = Chars("(-")
                    /\ \A r \in 0..(q - 1) : SubSeq(l, r + 1, r + 2) # Chars("(-")
        IN  AtoI(AsBuff(l), p + 1)

\* The text of line 1 after the header and its suffix.
Annotation(t) == LET l1 == OutLine(t, 1)
                 IN  SubSeq(l1, ProvisionalLen + Len(HeaderSuffix) + 1, Len(l1))

AnnotationOf(name) == IF name = <<>> THEN <<>> ELSE Chars(" (500) Geocentric: ") \o name

LastPlainIdLine ==
   LET ids == {i \in 1..(FirstData - 1) :
                 /\ IsRevisedLine(Line(i)) \/ IsTargetLine(Line(i))
                 /\ ~Within(Line(i), Chars("Earth Mean Equator and Equinox"))
                 /\ ~Within(Line(i), Chars("Reference frame : ICRF"))
                 /\ ~Within(Line(i), Chars("Ecliptic and Mean Equinox of Reference Epoch"))
                 /\ ~Within(Line(i), Chars("Reference frame : Ecliptic of J2000"))}
   IN  IF ids = {} THEN 0 ELSE CHOOSE i \in ids : \A j \in ids : j <= i

LayoutOf(l) == IF l[2] = "X" \/ l[3] = "X" THEN <<4, 30, 56>> ELSE <<1, 24, 47>>

\* The line reaches the place of its third number.
ReachesZ(l) == Len(l) > 56

\* The three numbers of a line read alone.
NumbersOf(l) == [k \in 1..3 |-> AtoF(AsBuff(l), LayoutOf(l)[k])]

\* The last finished line of a text.
LastLine(t) == OutLine(t, Newlines(t))

\* A step that writes a sample of an equatorial ephemeris in AU.
WritesPlainSample ==
   /\ pc = "scan" /\ n_written' = n_written + 1
   /\ ~is_ecliptical /\ ~in_km_s

C10_PositionStep ==
   (WritesPlainSample /\ ReachesZ(Line(ipos + 2)))
      => LET want == PositionText(AtoF(LineBuff(ipos + 1), 0), NumbersOf(Line(ipos + 2)))
         IN  SubSeq(LastLine(ofile'), 1, Len(want)) = want

C10_VelocityStep ==
   (WritesPlainSample /\ state_vectors /\ ReachesZ(Line(ipos + 3)))
      => LET want == VelocityText(NumbersOf(Line(ipos + 3)))
             last == LastLine(ofile') \o <<"\n">>
         IN  SubSeq(last, Len(last) - Len(want) + 1, Len(last)) = want

\* C10: the numbers written for a sample are those at the offsets 4, 30, 56
\* of its coordinate line when character 1 or 2 of that line is 'X', at the
\* offsets 1, 24, 47 otherwise, whatever the lines of the other samples
\* were; the labelled and the unlabelled line with the same numbers give the
\* same three numbers.
C10_LayoutPerLine ==
   /\ [][C10_PositionStep /\ C10_VelocityStep]_vars
   /\ [](pc = "start"
            => /\ get_coords_from_buff(Fgets(buff, LineText.cl), FALSE)
                     = get_coords_from_buff(Fgets(buff, LineText.cu), FALSE)
               /\ get_coords_from_buff(Fgets(buff, LineText.vl), FALSE)
                     = get_coords_from_buff(Fgets(buff, LineText.vu), FALSE))

\* Reached: an unlabelled and then a labelled coordinate line in one run, the
\* two records with the same coordinates.
C10_Witness ==
   /\ Succeeded /\ n_written = 2 /\ ~is_ecliptical /\ ~in_km_s
   /\ \E i \in 1..Len(ifile) : \E j \in (i + 1)..Len(ifile) :
         /\ ifile[i] = "cu" /\ ifile[j] = "cl"
         /\ \A k \in 1..Len(ifile) : ifile[k] \notin {"ck", "cs"} /\ (ifile[k] = "cu" => k = i)
   /\ SubSeq(Record(ofile, 1), 14, 61) = SubSeq(Record(ofile, 2), 14, 61)
   /\ SubSeq(Record(ofile, 1), 14, 29) = Chars("    1.0000000000")

(***************************************************************************)
(* C11                                                                     *)
(***************************************************************************)

\* The frame markers of the input after its first data line.
LateFrameMarks ==
   {i \in (FirstData + 1)..Len(ifile) : Fires(i) \in {"is_equatorial", "is_ecliptical"}}

\* C11 as stated: the frame is tested at the first data line only, so a run
\* that has accepted a sample does not end with the frame message.
C11_FirstPairWins ==
   (pc = "exit" /\ ErrorKind = "frame") => n_written = 0

\* A data line is the next line of the loop after a sample was written.
DataLineAfterSample ==
   /\ pc = "scan" /\ ipos < Len(ifile)
   /\ Qualifies(ipos + 1)
   /\ n_written >= 1

C11_LaterDataLineStep ==
   DataLineAfterSample
      => IF is_equatorial = is_ecliptical
         THEN /\ pc' = "exit" /\ ret' = -1
              /\ console' = Append(console, MsgFrame)
              /\ ofile' = ofile /\ n_written' = n_written
         ELSE console' # Append(console, MsgFrame)

C11_LateFailureKeepsSamples ==
   (pc = "exit" /\ ErrorKind = "frame" /\ n_written >= 1)
      => /\ is_equatorial /\ is_ecliptical
         /\ LateFrameMarks # {}
         /\ RecordCount(ofile) = n_written
         /\ \A k \in 1..n_written : IsRecord(Record(ofile, k))

\* C11: the frame is tested at every data line the loop reads, not at the
\* first only: after a sample was written, a data line read while both frame
\* flags are set ends the run with the frame message and status -1, the
\* samples written before it left in the output; a data line read while
\* exactly one flag is set does not.  Such a failure needs a frame marker
\* after the first data line.
C11_CheckedAtEveryDataLine ==
   [][C11_LaterDataLineStep]_vars /\ []C11_LateFailureKeepsSamples

\* Reached: the frame message after one sample was written.
C11_Witness ==
   /\ pc = "exit" /\ ErrorKind = "frame"
   /\ n_written = 1 /\ RecordCount(ofile) = 1

(***************************************************************************)
(* C12                                                                     *)
(***************************************************************************)

\* The rule of a line by its text, the rules taken in the order: velocity
\* header, equatorial markers, ecliptic markers, " Revised:", "Target body
\* name:", "Output units".
RuleOfLine(l) ==
   IF BeginsWith(l, Chars("   VX    VY    VZ")) THEN "state_vectors"
   ELSE IF Within(l, Chars("Earth Mean Equator and Equinox"))
             \/ Within(l, Chars("Reference frame : ICRF")) THEN "is_equatorial"
   ELSE IF Within(l, Chars("Ecliptic and Mean Equinox of Reference Epoch"))
             \/ Within(l, Chars("Reference frame : Ecliptic of J2000")) THEN "is_ecliptical"
   ELSE IF BeginsWith(l, Chars(" Revised:")) THEN "object_name"
   ELSE IF BeginsWith(l, Chars("Target body name:")) THEN "object_name"
   ELSE IF BeginsWith(l, Chars("Output units    : KM-S")) THEN "in_km_s"
   ELSE "none"

\* The rules a line meets the condition of, whatever the order.
RulesMet(l) ==
   {r \in {"state_vectors", "is_equatorial", "is_ecliptical", "object_name", "in_km_s"} :
      \/ r = "state_vectors" /\ BeginsWith(l, Chars("   VX    VY    VZ"))
      \/ r = "is_equatorial" /\ (Within(l, Chars("Earth Mean Equator and Equinox"))
                                    \/ Within(l, Chars("Reference frame : ICRF")))
      \/ r = "is_ecliptical" /\ (Within(l, Chars("Ecliptic and Mean Equinox of Reference Epoch"))
                                    \/ Within(l, Chars("Reference frame : Ecliptic of J2000")))
      \/ r = "object_name" /\ (BeginsWith(l, Chars(" Revised:"))
                                  \/ BeginsWith(l, Chars("Target body name:")))
      \/ r = "in_km_s" /\ BeginsWith(l, Chars("Output units    : KM-S"))}

\* The pieces of the detector state a step changes.
Changed ==
   {r \in {"state_vectors", "is_equatorial", "is_ecliptical", "object_name", "in_km_s"} :
      \/ r = "state_vectors" /\ state_vectors' # state_vectors
      \/ r = "is_equatorial" /\ is_equatorial' # is_equatorial
      \/ r = "is_ecliptical" /\ is_ecliptical' # is_ecliptical
      \/ r = "object_name" /\ object_name' # object_name
      \/ r = "in_km_s" /\ in_km_s' # in_km_s}

\* The flag of a rule after the step.
FlagAfter(r) ==
   CASE r = "state_vectors" -> state_vectors'
     [] r = "is_equatorial" -> is_equatorial'
     [] r = "is_ecliptical" -> is_ecliptical'
     [] r = "in_km_s"       -> in_km_s'
     [] OTHER               -> TRUE

C12_LineStep ==
   (pc = "scan" /\ ipos < Len(ifile))
      => /\ Cardinality(Changed) <= 1
         /\ Qualifies(ipos + 1) => Changed = {}
         /\ ~Qualifies(ipos + 1)
               => /\ Changed \subseteq {RuleOfLine(Line(ipos + 1))}
                  /\ FlagAfter(RuleOfLine(Line(ipos + 1)))
                  /\ ipos' = ipos + 1

\* C12: the step that reads a line changes at most one of the state-vector
\* flag, the equatorial flag, the ecliptic flag, the km/s flag and the object
\* name, and only the one of the first rule the line meets in the order
\* velocity header, equatorial, ecliptic, " Revised:", "Target body name:",
\* "Output units"; the step that reads a data line changes none of them.
C12_OneRulePerLine == [][C12_LineStep]_vars

\* Reached: a " Revised:" line that names the equator and an identifier of
\* the table was read as an equatorial marker, the object name left empty.
C12_Witness ==
   /\ pc = "scan" /\ ipos = 1 /\ ifile[1] = "rvq"
   /\ RulesMet(Line(1)) = {"is_equatorial", "object_name"}
   /\ AtoI(AsBuff(Line(1)), 71) \in KnownIds
   /\ is_equatorial /\ object_name = <<>>

(***************************************************************************)
(* C13                                                                     *)
(***************************************************************************)

C13_AllClearAtStart ==
   pc = "start" => ~is_equatorial /\ ~is_ecliptical /\ ~state_vectors /\ ~in_km_s

C13_NoFlagReset ==
   /\ is_equatorial => is_equatorial'
   /\ is_ecliptical => is_ecliptical'
   /\ state_vectors => state_vectors'
   /\ in_km_s => in_km_s'

\* C13: the equatorial, the ecliptic, the state-vector and the km/s flag are
\* false when the run starts, and no step makes a flag false that was true.
C13_FlagsMonotone == []C13_AllClearAtStart /\ [][C13_NoFlagReset]_vars

\* Reached: a frame marker read a second time after a sample, its flag and
\* the flags set before the first sample still set at the end of the run.
C13_Witness ==
   /\ pc = "exit" /\ n_written = 2
   /\ ifile \in LateFiles /\ ifile[1] = ifile[4]
   /\ is_equatorial # is_ecliptical

(***************************************************************************)
(* C14                                                                     *)
(***************************************************************************)

\* The conditions of a timestamp line, on the line as fgets reads it, its
\* newline included.
NumberInRange(l) ==
   GtInt(AtoF(AsBuff(l), 0), 2000000) /\ LtInt(AtoF(AsBuff(l), 0), 3000000)
LongEnough(l) == Len(l) > 54
HasCalendarMark(l) == Len(l) >= 24 /\ SubSeq(l, 18, 24) = Chars(" = A.D.")
HasTimePunctuation(l) == Len(l) >= 46 /\ l[43] = ":" /\ l[46] = "."
HasTimeScale(l) == Len(l) >= 54 /\ SubSeq(l, 51, 54) = Chars(" TDB")

TimestampConditions(l) ==
   <<NumberInRange(l), LongEnough(l), HasCalendarMark(l), HasTimePunctuation(l),
     HasTimeScale(l)>>

MeetsAll(l) == \A k \in 1..5 : TimestampConditions(l)[k]

\* The line fails the k-th condition and no other.
FailsOnly(l, k) == \A j \in 1..5 : TimestampConditions(l)[j] <=> j # k

\* The step treats the line it reads as a timestamp line: it ends the run
\* with an error message, or it counts a sample.
TreatedAsTimestamp == pc' = "exit" \/ n_written' = n_written + 1

C14_LineStep ==
   (pc = "scan" /\ ipos < Len(ifile))
      => /\ TreatedAsTimestamp <=> MeetsAll(Line(ipos + 1))
         /\ ~MeetsAll(Line(ipos + 1))
               => n_written' = n_written /\ ofile' = ofile /\ ipos' = ipos + 1

\* C14: the line the loop reads is treated as a timestamp line if and only
\* if its leading number is above 2000000 and below 3000000, it is longer
\* than 54 characters (its newline counted), it has " = A.D." at offset 17,
\* ':' at offset 42, '.' at offset 45 and " TDB" at offset 50; a line that
\* fails a condition is not counted as a sample and nothing is written for it.
C14_TimestampFingerprint == [][C14_LineStep]_vars

\* Reached: a run that counted the sample of a data line and passed over a
\* last line that fails the length alone.
C14_Witness ==
   /\ Succeeded /\ n_written = 1
   /\ ifile = <<"eq", "t1", "cu", "t54">>
   /\ FailsOnly(Line(4), 2) /\ MeetsAll(Line(2))

(***************************************************************************)
(* C15                                                                     *)
(***************************************************************************)

SecondsPerDay == 86400

\* x * 86400, for |x| < 24000.
TimesSecondsPerDay(x) ==
   LET t == x.fp * (SecondsPerDay \div 100)
       m == Norm(x.ip * SecondsPerDay + (t \div (Scale \div 100)),
                 (t % (Scale \div 100)) * 100)
   IN  Num(x.neg, m.ip, m.fp)

\* new_y = y*cos - z*sin, new_z = y*sin + z*cos, x unchanged.
RotatedAboutX(c) ==
   <<c[1],
     SubNum(MulC(c[2], cos_obliq_2000), MulC(c[3], sin_obliq_2000)),
     AddNum(MulC(c[2], sin_obliq_2000), MulC(c[3], cos_obliq_2000))>>

\* A position in km as AU, a velocity in km/s as AU/day.
KmAsAU(c) == [k \in 1..3 |-> DivLong(c[k], AU_IN_KM, 0)]
KmPerSecAsAUPerDay(c) == [k \in 1..3 |-> DivLong(TimesSecondsPerDay(c[k]), AU_IN_KM, 0)]

\* The vector emitted for the numbers c of a line under the two flags.
EmittedPosition(c, ecl, km) ==
   LET r == IF ecl THEN RotatedAboutX(c) ELSE c
   IN  IF km THEN KmAsAU(r) ELSE r
EmittedVelocity(c, ecl, km) ==
   LET r == IF ecl THEN RotatedAboutX(c) ELSE c
   IN  IF km THEN KmPerSecAsAUPerDay(r) ELSE r

\* A step that counts a sample.
WritesSample == pc = "scan" /\ n_written' = n_written + 1

C15_PositionStep ==
   (WritesSample /\ ReachesZ(Line(ipos + 2)))
      => LET want == PositionText(AtoF(LineBuff(ipos + 1), 0),
                                  EmittedPosition(NumbersOf(Line(ipos + 2)),
                                                  is_ecliptical, in_km_s))
         IN  SubSeq(LastLine(ofile'), 1, Len(want)) = want

C15_VelocityStep ==
   (WritesSample /\ state_vectors /\ ReachesZ(Line(ipos + 3)))
      => LET want == VelocityText(EmittedVelocity(NumbersOf(Line(ipos + 3)),
                                                  is_ecliptical, in_km_s))
             last == LastLine(ofile') \o <<"\n">>
         IN  SubSeq(last, Len(last) - Len(want) + 1, Len(last)) = want

\* C15: the position of a sample, and its velocity when there is one, is the
\* vector of its line rotated about the x axis (new_y = y*cos - z*sin,
\* new_z = y*sin + z*cos) exactly when the ecliptic flag is set as the sample
\* is read, and then scaled exactly when the km/s flag is set: a position
\* divided by the AU in km, a velocity multiplied by 86400 and divided by the
\* AU in km; with neither flag the numbers of the line are written as parsed.
C15_RotateThenScale == [][C15_PositionStep /\ C15_VelocityStep]_vars

\* Reached: an ecliptic ephemeris in km and km/s, its first sample rotated
\* and scaled to (1, 0.19889, -0.45874) AU with a velocity whose x is 1 AU/day.
C15_Witness ==
   /\ Succeeded /\ n_written = 2
   /\ is_ecliptical /\ in_km_s /\ state_vectors
   /\ ifile \in UnitFiles
   /\ SubSeq(Record(ofile, 1), 14, 61)
         = Chars("    1.0000000000    0.1988900000   -0.4587400000")
   /\ SubSeq(Record(ofile, 1), 62, 78) = Chars("   1.000000000000")

(***************************************************************************)
(* C16                                                                     *)
(***************************************************************************)

\* The number of decimal points of a text: one for each %f field.
Fields(t) == Cardinality({i \in 1..Len(t) : t[i] = "."})

C16_SampleStep ==
   WritesSample
      => LET rec == LastLine(ofile')
         IN  /\ ofile'[Len(ofile')] = "\n"
             /\ Newlines(ofile') = Newlines(ofile) + (IF n_written = 0 THEN 2 ELSE 1)
             /\ IsRecord(rec)
             /\ IF state_vectors
                THEN ipos' = ipos + 3 /\ Fields(rec) = 7 /\ Len(rec) >= 110
                ELSE ipos' = ipos + 2 /\ Fields(rec) = 4 /\ Len(rec) >= 61

\* C16: the step that counts a sample reads, besides the timestamp line, one
\* line when the state-vector flag is clear and two lines when it is set, the
\* flag taken as the timestamp line is read; it writes one output line: the
\* Julian Date and three position fields, and with the flag set three
\* velocity fields on the same line.
C16_ShapeByStateVectorFlag == [][C16_SampleStep]_vars

\* Reached: the velocity header read between two samples, the first record
\* with a position only, the second with a velocity on its line.
C16_Witness ==
   /\ Succeeded /\ n_written = 2 /\ RecordCount(ofile) = 2
   /\ ifile \in LateFiles
   /\ Fields(Record(ofile, 1)) = 4 /\ Len(Record(ofile, 1)) = 61
   /\ Fields(Record(ofile, 2)) = 7 /\ Len(Record(ofile, 2)) = 110

(***************************************************************************)
(* C17                                                                     *)
(***************************************************************************)

\* The data lines of the input from line i on that are not read as a
\* coordinate line of an earlier sample, added to n; sv tells whether the
\* velocity header was met before line i.
RECURSIVE UnconsumedDataLines(_, _, _)
UnconsumedDataLines(i, sv, n) ==
   IF i > Len(ifile) THEN n
   ELSE CHOOSE r \in
           {IF q THEN UnconsumedDataLines(i + (IF sv THEN 3 ELSE 2), sv, n + 1)
            ELSE UnconsumedDataLines(i + 1, v, n) :
               <<q, v>> \in {<<Qualifies(i),
                               sv \/ BeginsWith(Line(i), Chars("   VX    VY    VZ"))>>}} : TRUE

\* The lines a step reads after the first one.
ConsumedBy == {i \in (ipos + 2)..ipos' : i <= Len(ifile)}

C17_SampleStep ==
   (pc = "scan" /\ ipos < Len(ifile) /\ Qualifies(ipos + 1) /\ pc' = "scan")
      => /\ Cardinality(ConsumedBy) = (IF state_vectors THEN 2 ELSE 1)
         /\ Changed = {}
         /\ n_written' = n_written + 1

C17_OtherLineStep ==
   (pc = "scan" /\ ipos < Len(ifile) /\ ~Qualifies(ipos + 1))
      => ConsumedBy = {} /\ n_written' = n_written

C17_CountsUnconsumed ==
   Succeeded => n_written = UnconsumedDataLines(1, FALSE, 0)

\* C17: the lines a sample reads for its position and its velocity are not
\* classified: the step that reads them changes no flag and no object name
\* and counts one sample, whatever they hold, and the loop goes on after
\* them; a successful run has written as many samples as the input has data
\* lines that are not read as a coordinate line of an earlier sample.
C17_ConsumedNotClassified ==
   [][C17_SampleStep /\ C17_OtherLineStep]_vars /\ []C17_CountsUnconsumed

\* Reached: a data line read as a position and a marker read as a velocity,
\* the flags and the name as the header left them, two samples for three
\* data lines.
C17_Witness ==
   /\ Succeeded /\ n_written = 2
   /\ ifile \in ConsumedFiles
   /\ Qualifies(4) /\ RulesMet(Line(5)) # {}
   /\ Cardinality(QualifyingLines) = 3
   /\ ~is_ecliptical /\ ~in_km_s /\ object_name = <<>>

(***************************************************************************)
(* C18                                                                     *)
(***************************************************************************)

\* The run ended with the frame message or with the message of a missing
\* coordinate line.
FailedInScan == pc = "exit" /\ ErrorKind \in {"frame", "nodata"}

\* The header as written before the scan: epoch 0, step 0, count 0.
ProvisionalHeader == Chars("      0.00000   0.0000000000    0 0,1,1")

\* The text after the last newline of t.
Unfinished(t) == SubSeq(t, NewlineAt(t, Newlines(t)) + 1, Len(t))

\* C18: when a run ends with the frame error or the truncated-input error,
\* the output begins with the provisional header (epoch 0, step 0, count 0),
\* holds neither the trailer nor a copy of the preamble, and every sample
\* counted before the failure is a finished record of it: after line 1 come
\* the n_written records and at most the unfinished position of the sample
\* that failed.
C18_FailureLeavesProvisional ==
   FailedInScan
      => /\ BeginsWith(ofile, ProvisionalHeader)
         /\ AtoF(AsBuff(OutLine(ofile, 1)), 0) = Zero
         /\ StepField(ofile) = Zero /\ CountField(ofile) = 0
         /\ ~Within(ofile, Chars("Created from"))
         /\ Newlines(ofile) \in {0, n_written + 1}
         /\ Newlines(ofile) = 0 => n_written = 0
         /\ \A k \in 1..n_written : IsRecord(Record(ofile, k))
         /\ Unfinished(ofile) # <<>> /\ Newlines(ofile) > 0
               => ErrorKind = "nodata" /\ state_vectors /\ IsRecord(Unfinished(ofile))
         /\ Len(ofile) <= Len(ProvisionalHeader) + 68 + 120 * (n_written + 1)

\* Reached: the input ended in the second sample of an ephemeris with a
\* preamble; the first record is in the output, the header says 0 samples.
C18_Witness ==
   /\ FailedInScan /\ ErrorKind = "nodata" /\ n_written = 1
   /\ SentinelIndex > 1
   /\ IsRecord(Record(ofile, 1))
   /\ CountField(ofile) = 0

(***************************************************************************)
(* C19                                                                     *)
(***************************************************************************)

\* The vector of a sample from the coordinate line i read into a cleared
\* buffer: what the characters of the line alone give.
PositionOfLineAlone(i) ==
   LET c == get_coords_from_buff(LineBuff(i), is_ecliptical)
   IN  IF in_km_s THEN PosToAU(c) ELSE c
VelocityOfLineAlone(i) ==
   LET c == get_coords_from_buff(LineBuff(i), is_ecliptical)
   IN  IF in_km_s THEN VelToAUDay(c) ELSE c

C19_RevisedStep ==
   (pc = "scan" /\ ipos < Len(ifile) /\ ~Qualifies(ipos + 1)
       /\ RuleOfLine(Line(ipos + 1)) = "object_name" /\ IsRevisedLine(Line(ipos + 1)))
      => object_name' = look_up_name(AtoI(LineBuff(ipos + 1), 71))

C19_PositionStep ==
   WritesSample
      => LET want == PositionText(AtoF(LineBuff(ipos + 1), 0), PositionOfLineAlone(ipos + 2))
         IN  SubSeq(LastLine(ofile'), 1, Len(want)) = want

C19_VelocityStep ==
   (WritesSample /\ state_vectors)
      => LET want == VelocityText(VelocityOfLineAlone(ipos + 3))
             last == LastLine(ofile') \o <<"\n">>
         IN  SubSeq(last, Len(last) - Len(want) + 1, Len(last)) = want

\* C19: the identifier read at offset 71 of a " Revised:" line and the three
\* numbers read from a coordinate line are those the characters of the line
\* alone give, whatever the buffer held before the line was read.
C19_ReadsStayInLine ==
   [][C19_RevisedStep /\ C19_PositionStep /\ C19_VelocityStep]_vars

(***************************************************************************)
(* C20                                                                     *)
(***************************************************************************)

\* The output before its trailer: all of it when there is no trailer.
BeforeTrailer(t) ==
   LET mark == Chars("\n\nCreated from")
       hits == {p \in 0..(Len(t) - Len(mark)) : SubSeq(t, p + 1, p + Len(mark)) = mark}
   IN  IF hits = {} THEN t
       ELSE SubSeq(t, 1, CHOOSE p \in hits : \A q \in hits : p <= q)

\* The descriptive texts of the output: the lines before the trailer that
\* are not records.
DescriptiveCount(t) ==
   LET body == BeforeTrailer(t)
   IN  Cardinality({k \in 1..Newlines(body) : k = 1 \/ ~IsRecord(OutLine(body, k))})

\* The epoch a reader finds in the header line.
EpochField(t) == AtoF(AsBuff(OutLine(t, 1)), 0)

\* The Julian Date field of a record: its first 13 characters.
JdField(l) == SubSeq(l, 1, 13)

\* The header of a successful run without a sample and with one sample.
C20_HeaderOfShortRuns ==
   /\ (Succeeded /\ n_written = 0)
         => /\ EpochField(ofile) = Zero
            /\ StepField(ofile) = Zero
            /\ CountField(ofile) = 0
   /\ (Succeeded /\ n_written = 1)
         => /\ SubSeq(OutLine(ofile, 1), 1, 13) = JdField(Record(ofile, 1))
            /\ JdField(Record(ofile, 1)) = FmtF(AtoF(LineBuff(FirstData), 0), 13, 5)
            /\ GtInt(EpochField(ofile), 2000000)
            /\ StepField(ofile) = Zero
            /\ CountField(ofile) = 1

\* With a sample: one descriptive text, at the end of line 1, the first
\* record right after it.
C20_OnceBeforeFirstRecord ==
   (pc = "exit" /\ Opened /\ n_written >= 1)
      => /\ DescriptiveCount(ofile) = 1
         /\ Annotation(ofile) \in {<<>>} \cup Annotations
         /\ IsRecord(OutLine(ofile, 2))

\* C20 as stated: the descriptive text is written once in a run with a
\* sample and not at all in a run without one.
C20_DescriptiveOnlyWithSample ==
   /\ C20_HeaderOfShortRuns
   /\ C20_OnceBeforeFirstRecord
   /\ (pc = "exit" /\ Opened /\ n_written = 0) => DescriptiveCount(ofile) = 0

\* C20: the descriptive text is written once, when the first data line has
\* passed the frame test and before its position line is read: in a run with
\* a sample it ends line 1 right before the first record; in a run without a
\* sample it is absent, unless the run ended with the truncated-input error
\* at its first data line, where it is written and no record follows it.  A
\* successful run without a sample has epoch 0, step 0 and count 0 in its
\* header, one with a single sample the Julian Date of the sample, step 0
\* and count 1.
C20_DescriptiveAtFirstDataLine ==
   /\ C20_HeaderOfShortRuns
   /\ C20_OnceBeforeFirstRecord
   /\ (pc = "exit" /\ Opened /\ n_written = 0)
         => IF ErrorKind = "nodata"
            THEN /\ DescriptiveCount(ofile) = 1
                 /\ Annotation(ofile) \in {<<>>} \cup Annotations
                 /\ Newlines(ofile) = 1
                 /\ QualifyingLines # {}
            ELSE DescriptiveCount(ofile) = 0

\* Reached: the input ended with its first data line; the annotation is
\* written, no sample is.
C20_Witness ==
   /\ pc = "exit" /\ ErrorKind = "nodata" /\ n_written = 0
   /\ Annotation(ofile) = Chars(" (500) Geocentric: TESS = 2018-038A = NORAD 43435")
   /\ ofile[Len(ofile)] = "\n"

====
